---- MODULE Spec2Model ----
(***************************************************************************)
(* State-machine model of the dungeon crawler core in src/logic.cpp:       *)
(* loadLevel, createMap, deleteMap, resizeMap, doPlayerMove and            *)
(* doMonsterAttack, driven by a caller that holds the map pointer, the     *)
(* dimensions and the Player object.                                       *)
(*                                                                         *)
(* The C++ int is modelled as a two's-complement integer of IntBits bits   *)
(* (wrap-around on overflow); INT32_MAX is the largest value of that type. *)
(* A grid is a function cells[row][col] over 0..rows-1 and 0..cols-1.      *)
(* Heap blocks are named by handles 1, 2, ...; 0 is nullptr.               *)
(***************************************************************************)
EXTENDS Integers, Sequences, FiniteSets

\* ------------------------------------------------------------------ bounds

\* Width in bits of the modelled int type (the program's int has 32).
IntBits == 6

\* Largest number of cells of a grid the driver of Spec resizes into.
MaxCells == 8

\* ------------------------------------------------------- program constants

TILE_OPEN == "Open"
TILE_PLAYER == "Player"
TILE_TREASURE == "Treasure"
TILE_AMULET == "Amulet"
TILE_MONSTER == "Monster"
TILE_PILLAR == "Pillar"
TILE_DOOR == "Door"
TILE_EXIT == "Exit"

STATUS_STAY == 0
STATUS_MOVE == 1
STATUS_TREASURE == 2
STATUS_AMULET == 3
STATUS_LEAVE == 4
STATUS_ESCAPE == 5

\* The null pointer.
nullptr == 0

\* ------------------------------------------------------------ int arithmetic

Pow2(n) == 2 ^ n

INT32_MAX == Pow2(IntBits - 1) - 1

INT32_MIN == 0 - Pow2(IntBits - 1)

\* The value of the int type congruent to x modulo 2^IntBits.
Wrap(x) == ((x - INT32_MIN) % Pow2(IntBits)) + INT32_MIN

\* C++ integer division: the quotient truncated toward zero (b # 0).
Abs(x) == IF x < 0 THEN 0 - x ELSE x

CDiv(a, b) ==
    IF (a < 0) = (b < 0) THEN Abs(a) \div Abs(b) ELSE 0 - (Abs(a) \div Abs(b))

\* ------------------------------------------------------------------- grids

\* What a null map pointer points at: no rows.
NoGrid == << >>

\* map[row][col] = tile
SetCell(g, row, col, tile) == [g EXCEPT ![row][col] = tile]

\* The number of cells of grid g (rows x cols) that hold tile.
CountTile(g, rows, cols, tile) ==
    Cardinality({rc \in (0 .. rows - 1) \X (0 .. cols - 1) : g[rc[1]][rc[2]] = tile})

\* Mutant of createMap: the product of the dimensions is not checked.
createMapUnchecked(maxRow_, maxCol_) ==
    IF maxRow_ <= 0 \/ maxCol_ <= 0 THEN NoGrid
    ELSE [row \in 0 .. maxRow_ - 1 |-> [col \in 0 .. maxCol_ - 1 |-> TILE_OPEN]]

createMap(maxRow_, maxCol_) ==
    IF maxRow_ <= 0 \/ maxCol_ <= 0 THEN NoGrid
    ELSE IF maxRow_ > CDiv(INT32_MAX, maxCol_) THEN NoGrid
    ELSE IF maxCol_ > CDiv(INT32_MAX, maxRow_) THEN NoGrid
    ELSE [row \in 0 .. maxRow_ - 1 |-> [col \in 0 .. maxCol_ - 1 |-> TILE_OPEN]]

\* ------------------------------------------------------------ level sources

(* A level source is the token stream of the file: hdr, the tokens read as  *)
(* ints (each [num |-> TRUE, val |-> n] or a non-numeric [num |-> FALSE,    *)
(* val |-> 0]), followed by tiles, the characters read one at a time.       *)

\* fin >> intVar at header position i; old is the variable's value before.
\* A failed extraction stores 0; at the end of the stream nothing is stored.
ReadInt(src, i, old) ==
    IF i > Len(src.hdr)
    THEN [ok |-> FALSE, val |-> IF Len(src.tiles) > 0 THEN 0 ELSE old]
    ELSE IF ~src.hdr[i].num THEN [ok |-> FALSE, val |-> 0]
    ELSE [ok |-> TRUE, val |-> src.hdr[i].val]

\* Mutant of TileOf: an amulet is stored as treasure.
TileOfSwapped(spot) ==
    IF spot = TILE_TREASURE \/ spot = TILE_AMULET THEN TILE_TREASURE
    ELSE IF spot \in {TILE_PILLAR, TILE_OPEN, TILE_MONSTER, TILE_DOOR, TILE_EXIT} THEN spot
    ELSE ""

\* Mutant of TileOf: a foreign character is stored as an open cell.
TileOfLax(spot) ==
    IF spot \in {TILE_TREASURE, TILE_PILLAR, TILE_AMULET, TILE_MONSTER, TILE_DOOR, TILE_EXIT}
    THEN spot
    ELSE TILE_OPEN

\* The tile stored for source character spot (the if-chain of the tile loop),
\* or "" when spot is no tile character.
TileOf(spot) ==
    IF spot = TILE_TREASURE THEN TILE_TREASURE
    ELSE IF spot = TILE_PILLAR THEN TILE_PILLAR
    ELSE IF spot = TILE_OPEN THEN TILE_OPEN
    ELSE IF spot = TILE_AMULET THEN TILE_AMULET
    ELSE IF spot = TILE_MONSTER THEN TILE_MONSTER
    ELSE IF spot = TILE_DOOR THEN TILE_DOOR
    ELSE IF spot = TILE_EXIT THEN TILE_EXIT
    ELSE ""

(* The tile loop of loadLevel from (row, col) on, writing into g. f holds   *)
(* the loop's frame: tiles, maxRow, maxCol, prow, pcol. The result is       *)
(* "done" with the grid written, "fail" (a return nullptr inside the loop)  *)
(* or "null" (a store through a null map pointer: undefined behaviour).     *)
RECURSIVE ReadTiles(_, _, _, _)
ReadTiles(f, row, col, g) ==
    IF row >= f.maxRow THEN [kind |-> "done", g |-> g]
    ELSE IF col >= f.maxCol THEN ReadTiles(f, row + 1, 0, g)
    ELSE LET k == row * f.maxCol + col + 1
         IN IF k > Len(f.tiles) THEN [kind |-> "fail", g |-> g]
            ELSE IF row = f.prow /\ col = f.pcol
            THEN IF g = NoGrid THEN [kind |-> "null", g |-> g]
                 ELSE ReadTiles(f, row, col + 1, SetCell(g, row, col, TILE_PLAYER))
            ELSE IF TileOf(f.tiles[k]) # ""
            THEN IF g = NoGrid THEN [kind |-> "null", g |-> g]
                 ELSE ReadTiles(f, row, col + 1, SetCell(g, row, col, TileOf(f.tiles[k])))
            ELSE [kind |-> "fail", g |-> g]

\* The final scan of loadLevel: hasDoor == false && hasExit == false.
NoDoorNoExit(g, maxRow_, maxCol_) ==
    CountTile(g, maxRow_, maxCol_, TILE_EXIT) = 0
        /\ CountTile(g, maxRow_, maxCol_, TILE_DOOR) = 0

(* loadLevel(src, maxRow, maxCol, player). The result names what is         *)
(* returned (ret: "map", "nullptr", or "ub" after a store through a null    *)
(* pointer), the reference parameters as left behind, whether createMap     *)
(* allocated a block (alloc) and that block's contents (g).                 *)
LoadFail(mr, mc, pl, alloc, g) ==
    [ret |-> "nullptr", maxRow |-> mr, maxCol |-> mc, player |-> pl,
     alloc |-> alloc, g |-> g]

loadLevel(src, maxRow_, maxCol_, player_) ==
    LET r == ReadInt(src, 1, maxRow_)
        c == ReadInt(src, 2, maxCol_)
        totalSpots == Wrap(r.val * c.val)
        g0 == createMap(r.val, c.val)
        al == g0 # NoGrid
        pr == ReadInt(src, 3, player_.row)
        pc == ReadInt(src, 4, player_.col)
        p1 == [player_ EXCEPT !.row = pr.val]
        p2 == [p1 EXCEPT !.col = pc.val]
        t == ReadTiles([tiles |-> src.tiles, maxRow |-> r.val, maxCol |-> c.val,
                        prow |-> pr.val, pcol |-> pc.val], 0, 0, g0)
    IN IF ~r.ok THEN LoadFail(r.val, maxCol_, player_, FALSE, NoGrid)
       ELSE IF ~c.ok THEN LoadFail(r.val, c.val, player_, FALSE, NoGrid)
       ELSE IF totalSpots <= 1 THEN LoadFail(r.val, c.val, player_, FALSE, NoGrid)
       ELSE IF ~pr.ok THEN LoadFail(r.val, c.val, p1, al, g0)
       ELSE IF ~pc.ok THEN LoadFail(r.val, c.val, p2, al, g0)
       ELSE IF pc.val >= c.val \/ pr.val >= r.val THEN LoadFail(r.val, c.val, p2, al, g0)
       ELSE IF pc.val < 0 \/ pr.val < 0 THEN LoadFail(r.val, c.val, p2, al, g0)
       ELSE IF t.kind = "fail" THEN LoadFail(r.val, c.val, p2, al, t.g)
       ELSE IF t.kind = "null"
       THEN [ret |-> "ub", maxRow |-> r.val, maxCol |-> c.val, player |-> p2,
             alloc |-> al, g |-> t.g]
       ELSE IF Len(src.tiles) > r.val * c.val THEN LoadFail(r.val, c.val, p2, al, t.g)
       ELSE IF NoDoorNoExit(t.g, r.val, c.val) THEN LoadFail(r.val, c.val, p2, al, t.g)
       ELSE [ret |-> "map", maxRow |-> r.val, maxCol |-> c.val, player |-> p2,
             alloc |-> al, g |-> t.g]

\* ------------------------------------------------------------------ resize

(* One copy loop of resizeMap: newMap[row+rowOff][col+colOff] = map[row][col] *)
(* for every cell from (row, col) on, and, where f.blank holds (the second,   *)
(* third and fourth loop), TILE_OPEN instead of a copied TILE_PLAYER.         *)
(* f holds map, originalRow, originalCol, rowOff, colOff, blank. A null      *)
(* newMap has no cell to store into: resizeMap reports that store itself.    *)
RECURSIVE CopyLoop(_, _, _, _)
CopyLoop(f, row, col, newMap) ==
    IF row >= f.originalRow \/ newMap = NoGrid THEN newMap
    ELSE IF col >= f.originalCol THEN CopyLoop(f, row + 1, 0, newMap)
    ELSE LET copied == SetCell(newMap, row + f.rowOff, col + f.colOff, f.map[row][col])
         IN IF f.blank /\ f.map[row][col] = TILE_PLAYER
            THEN CopyLoop(f, row, col + 1,
                          SetCell(copied, row + f.rowOff, col + f.colOff, TILE_OPEN))
            ELSE CopyLoop(f, row, col + 1, copied)

\* Mutant of CopyFrame: no loop blanks the copied player.
CopyFrameNoBlank(g, originalRow, originalCol, rowOff, colOff, blank) ==
    [map |-> g, originalRow |-> originalRow, originalCol |-> originalCol,
     rowOff |-> rowOff, colOff |-> colOff, blank |-> FALSE]

\* The frame of one copy loop of resizeMap.
CopyFrame(g, originalRow, originalCol, rowOff, colOff, blank) ==
    [map |-> g, originalRow |-> originalRow, originalCol |-> originalCol,
     rowOff |-> rowOff, colOff |-> colOff, blank |-> blank]

(* resizeMap(map, maxRow, maxCol), g the grid map points at (NoGrid for a    *)
(* null map). The result names what is returned (ret: "map", "nullptr", or   *)
(* "ub" after a store through a null newMap), maxRow and maxCol as left      *)
(* behind, whether deleteMap(map) ran (freed), whether createMap allocated   *)
(* (alloc) and the new grid (g).                                             *)
resizeMap(g, maxRow_, maxCol_) ==
    LET originalRow == maxRow_
        originalCol == maxCol_
        r2 == Wrap(maxRow_ * 2)
        c2 == Wrap(maxCol_ * 2)
        newMap == createMap(r2, c2)
        q1 == CopyLoop(CopyFrame(g, originalRow, originalCol, 0, 0, FALSE), 0, 0, newMap)
        q2 == CopyLoop(CopyFrame(g, originalRow, originalCol, originalRow, 0, TRUE), 0, 0, q1)
        q3 == CopyLoop(CopyFrame(g, originalRow, originalCol, 0, originalCol, TRUE), 0, 0, q2)
        q4 == CopyLoop(CopyFrame(g, originalRow, originalCol, originalRow, originalCol, TRUE),
                       0, 0, q3)
    IN IF maxRow_ <= 0 \/ maxCol_ <= 0
       THEN [ret |-> "nullptr", maxRow |-> maxRow_, maxCol |-> maxCol_,
             freed |-> FALSE, alloc |-> FALSE, g |-> NoGrid]
       ELSE IF g = NoGrid
       THEN [ret |-> "nullptr", maxRow |-> maxRow_, maxCol |-> maxCol_,
             freed |-> FALSE, alloc |-> FALSE, g |-> NoGrid]
       ELSE IF r2 > CDiv(INT32_MAX, c2)
       THEN [ret |-> "nullptr", maxRow |-> r2, maxCol |-> c2,
             freed |-> TRUE, alloc |-> FALSE, g |-> NoGrid]
       ELSE IF newMap = NoGrid
       THEN [ret |-> "ub", maxRow |-> r2, maxCol |-> c2,
             freed |-> FALSE, alloc |-> FALSE, g |-> NoGrid]
       ELSE [ret |-> "map", maxRow |-> r2, maxCol |-> c2,
             freed |-> TRUE, alloc |-> TRUE, g |-> q4]

\* -------------------------------------------------------------------- move

\* Mutant of Relocate: the old cell is not cleared.
RelocateKeepsOld(g, player_, nextRow, nextCol) ==
    [g |-> SetCell(g, nextRow, nextCol, TILE_PLAYER),
     player |-> [player_ EXCEPT !.row = nextRow, !.col = nextCol]]

\* The four assignments every successful branch of doPlayerMove makes.
Relocate(g, player_, nextRow, nextCol) ==
    [g |-> SetCell(SetCell(g, nextRow, nextCol, TILE_PLAYER),
                   player_.row, player_.col, TILE_OPEN),
     player |-> [player_ EXCEPT !.row = nextRow, !.col = nextCol]]

\* Mutant of MoveResult: the amulet branch counts as treasure too.
MoveResultAmuletCounts(status, gp) ==
    [status |-> status, g |-> gp.g,
     player |-> IF status = STATUS_AMULET
                THEN [gp.player EXCEPT !.treasure = @ + 1]
                ELSE gp.player]

\* Mutant of MoveResult: an amulet is reported as a plain move.
MoveResultPlain(status, gp) ==
    [status |-> IF status = STATUS_AMULET THEN STATUS_MOVE ELSE status,
     g |-> gp.g, player |-> gp.player]

\* A successful branch's result: the status returned, the map and the player.
MoveResult(status, gp) == [status |-> status, g |-> gp.g, player |-> gp.player]

\* Mutant of Stay: a refused move is reported as a move.
StayReportsMove(g, player_) == [status |-> STATUS_MOVE, g |-> g, player |-> player_]

\* return STATUS_STAY: nothing has been written.
Stay(g, player_) == [status |-> STATUS_STAY, g |-> g, player |-> player_]

\* map[nextRow][nextCol] == TILE_MONSTER || map[nextRow][nextCol] == TILE_PILLAR
Blocks(tile) == tile = TILE_MONSTER \/ tile = TILE_PILLAR

\* map[nextRow][nextCol] == TILE_EXIT && player.treasure == 0
ExitLocked(tile, player_) == tile = TILE_EXIT /\ player_.treasure = 0

doPlayerMove(g, maxRow_, maxCol_, player_, nextRow, nextCol) ==
    LET stay == Stay(g, player_)
    IN IF nextRow >= maxRow_ \/ nextCol >= maxCol_ THEN stay
       ELSE IF nextRow < 0 \/ nextCol < 0 THEN stay
       ELSE IF Blocks(g[nextRow][nextCol]) THEN stay
       ELSE IF ExitLocked(g[nextRow][nextCol], player_) THEN stay
       ELSE IF g[nextRow][nextCol] = TILE_EXIT /\ player_.treasure # 0
       THEN MoveResult(STATUS_ESCAPE, Relocate(g, player_, nextRow, nextCol))
       ELSE IF g[nextRow][nextCol] = TILE_DOOR
       THEN MoveResult(STATUS_LEAVE, Relocate(g, player_, nextRow, nextCol))
       ELSE IF g[nextRow][nextCol] = TILE_TREASURE
       THEN MoveResult(STATUS_TREASURE,
                       Relocate(g, [player_ EXCEPT !.treasure = Wrap(@ + 1)],
                                nextRow, nextCol))
       ELSE IF g[nextRow][nextCol] = TILE_AMULET
       THEN MoveResult(STATUS_AMULET, Relocate(g, player_, nextRow, nextCol))
       ELSE IF g[nextRow][nextCol] = TILE_OPEN
       THEN MoveResult(STATUS_MOVE, Relocate(g, player_, nextRow, nextCol))
       ELSE [status |-> 0, g |-> g, player |-> player_]

\* ------------------------------------------------------------ monster turn

\* Mutant of Advance: the monster's old cell is not cleared.
AdvanceLeavesTrail(g, row, col, d) == SetCell(g, row - d[1], col - d[2], TILE_MONSTER)

\* Mutant of Advance: the monster's old cell is cleared, its new one not set.
AdvanceVanishes(g, row, col, d) == SetCell(g, row, col, TILE_OPEN)

\* Mutant of Advance: a monster steps onto an open cell only.
AdvanceOntoOpenOnly(g, row, col, d) ==
    IF g[row - d[1]][col - d[2]] = TILE_OPEN
    THEN SetCell(SetCell(g, row, col, TILE_OPEN), row - d[1], col - d[2], TILE_MONSTER)
    ELSE g

(* The two stores of a ray loop's monster branch, (row, col) the monster's *)
(* cell: map[row][col] = TILE_OPEN, then TILE_MONSTER into the cell one    *)
(* step back along d, towards the player.                                  *)
Advance(g, row, col, d) ==
    SetCell(SetCell(g, row, col, TILE_OPEN), row - d[1], col - d[2], TILE_MONSTER)

\* Mutant of Eaten: no step sets the flag.
EatenNever(eaten, i) == eaten

\* Mutant of Eaten: the flag is set two cells from the player as well.
EatenAtTwo(eaten, i) == eaten \/ i <= 2

\* if(i == 1){ eaten = true; }
Eaten(eaten, i) == eaten \/ i = 1

\* Mutant of StopsRay: no tile ends the scan.
StopsRayNever(tile) == FALSE

\* Mutant of StopsRay: the scan ends at a door instead.
StopsRayAtDoor(tile) == tile = TILE_DOOR

\* else if(map[..][..] == TILE_PILLAR){ break; }
StopsRay(tile) == tile = TILE_PILLAR

\* Mutant of AfterMonster: the loop is left once a monster has moved.
AfterMonsterBreak(i, length) == length + 1

\* The monster branch has no break: the loop goes on with ++i.
AfterMonster(i, length) == i + 1

(* One ray loop of doMonsterAttack from step i on: the cell i steps from   *)
(* the player in direction d = <<dRow, dCol>>. st holds the map g and the  *)
(* flag eaten.                                                             *)
RECURSIVE RayLoop(_, _, _, _, _, _)
RayLoop(st, pRow, pCol, d, i, length) ==
    IF i > length THEN st
    ELSE LET row == pRow + d[1] * i
             col == pCol + d[2] * i
         IN IF st.g[row][col] = TILE_MONSTER
            THEN RayLoop([g |-> Advance(st.g, row, col, d), eaten |-> Eaten(st.eaten, i)],
                         pRow, pCol, d, AfterMonster(i, length), length)
            ELSE IF StopsRay(st.g[row][col]) THEN st
            ELSE RayLoop(st, pRow, pCol, d, i + 1, length)

doMonsterAttack(g, maxRow_, maxCol_, player_) ==
    LET pRow == player_.row
        pCol == player_.col
        upLength == pRow
        downLength == (maxRow_ - 1) - pRow
        rightLength == (maxCol_ - 1) - pCol
        leftLength == pCol
        above == RayLoop([g |-> g, eaten |-> FALSE], pRow, pCol, <<-1, 0>>, 1, upLength)
        below == RayLoop(above, pRow, pCol, <<1, 0>>, 1, downLength)
        right == RayLoop(below, pRow, pCol, <<0, 1>>, 1, rightLength)
        left == RayLoop(right, pRow, pCol, <<0, -1>>, 1, leftLength)
    IN [ret |-> left.eaten, g |-> left.g]

\* ------------------------------------------------------------------- state

VARIABLES
    map,        \* the driver's map pointer: a heap handle, or nullptr
    cells,      \* the grid map points at (NoGrid when map is null)
    maxRow,     \* the driver's row count
    maxCol,     \* the driver's column count
    player,     \* the Player object: row, col, treasure
    heap,       \* heap[h]: how often block h has been deallocated so far
    op,         \* the last call: "none", "load", "move", "resize", "monsterTurn"
    arg,        \* the last call's input: the source, or the move target
    ret,        \* what the last call returned
    run,        \* "running", or "crashed" once the process has died
    nullDeref,  \* a store through a null map pointer has been executed
    collected,  \* history: some move has returned STATUS_TREASURE
    captured    \* history: doMonsterAttack returned true since the player was placed

vars ==
    <<map, cells, maxRow, maxCol, player, heap, op, arg, ret, run, nullDeref,
      collected, captured>>

\* The outcomes of a store through a null pointer: the process dies at the
\* store, or the build drops the store and the function runs on.
UBOutcomes == {"crash", "continue"}

\* new: the handle of the next block.
NewHandle == Len(heap) + 1

\* deleteMap(map, maxRow) on block h, as resizeMap calls it on its own copies.
deleteMap(hp, h) == IF h # nullptr THEN [hp EXCEPT ![h] = @ + 1] ELSE hp

Init ==
    /\ map = nullptr
    /\ cells = NoGrid
    /\ maxRow = 0
    /\ maxCol = 0
    /\ player = [row |-> 0, col |-> 0, treasure |-> 0]
    /\ heap = << >>
    /\ op = "none"
    /\ arg = << >>
    /\ ret = 0
    /\ run = "running"
    /\ nullDeref = FALSE
    /\ collected = FALSE
    /\ captured = FALSE

\* ----------------------------------------------------------------- actions

\* Nothing has been called yet.
Fresh == op = "none" /\ run = "running"

\* map = loadLevel(src, maxRow, maxCol, player), the driver's first call.
Load(src) ==
    /\ Fresh
    /\ \E ub \in UBOutcomes, res \in {loadLevel(src, maxRow, maxCol, player)} :
            /\ (res.ret # "ub" => ub = "continue")
            /\ op' = "load"
            /\ arg' = src
            /\ maxRow' = res.maxRow
            /\ maxCol' = res.maxCol
            /\ player' = res.player
            /\ heap' = IF res.alloc THEN Append(heap, 0) ELSE heap
            /\ map' = IF res.ret = "map" THEN NewHandle ELSE nullptr
            /\ cells' = IF res.ret = "map" THEN res.g ELSE NoGrid
            /\ ret' = IF res.ret = "map" THEN NewHandle ELSE nullptr
            /\ nullDeref' = (res.ret = "ub")
            /\ run' = IF res.ret = "ub" /\ ub = "crash" THEN "crashed" ELSE "running"
            /\ UNCHANGED <<collected, captured>>

\* The driver holds a grid and the process is alive.
Playing == run = "running" /\ map # nullptr

\* status = doPlayerMove(map, maxRow, maxCol, player, nextRow, nextCol)
Move ==
    /\ Playing
    /\ \E nextRow \in -1 .. maxRow, nextCol \in -1 .. maxCol :
         \E res \in {doPlayerMove(cells, maxRow, maxCol, player, nextRow, nextCol)} :
            /\ op' = "move"
            /\ arg' = <<nextRow, nextCol>>
            /\ ret' = res.status
            /\ cells' = res.g
            /\ player' = res.player
            /\ collected' = (collected \/ res.status = STATUS_TREASURE)
            /\ captured' = (captured /\ res.player = player)
            /\ UNCHANGED <<map, maxRow, maxCol, heap, run, nullDeref>>

\* eaten = doMonsterAttack(map, maxRow, maxCol, player)
MonsterTurn ==
    /\ Playing
    /\ \E res \in {doMonsterAttack(cells, maxRow, maxCol, player)} :
          /\ op' = "monsterTurn"
          /\ arg' = << >>
          /\ ret' = res.ret
          /\ cells' = res.g
          /\ captured' = (captured \/ res.ret)
          /\ UNCHANGED <<map, maxRow, maxCol, player, heap, run, nullDeref, collected>>

\* map = resizeMap(map, maxRow, maxCol)
Resize ==
    /\ run = "running"
    /\ op # "none"
    /\ \E ub \in UBOutcomes, res \in {resizeMap(cells, maxRow, maxCol)} :
         LET dies == res.ret = "ub" /\ ub = "crash"
             freed == res.freed \/ (res.ret = "ub" /\ ub = "continue")
             hp == IF freed THEN deleteMap(heap, map) ELSE heap
         IN /\ (res.ret # "ub" => ub = "continue")
            /\ op' = "resize"
            /\ arg' = << >>
            /\ maxRow' = res.maxRow
            /\ maxCol' = res.maxCol
            /\ heap' = IF res.alloc THEN Append(hp, 0) ELSE hp
            /\ map' = IF dies THEN map
                      ELSE IF res.ret = "map" THEN NewHandle ELSE nullptr
            /\ cells' = IF dies THEN cells
                        ELSE IF res.ret = "map" THEN res.g ELSE NoGrid
            /\ ret' = IF res.ret = "map" THEN NewHandle ELSE nullptr
            /\ nullDeref' = (nullDeref \/ res.ret = "ub")
            /\ run' = IF dies THEN "crashed" ELSE "running"
            /\ UNCHANGED <<player, collected, captured>>

\* ----------------------------------------------------------- level sources

Num(n) == [num |-> TRUE, val |-> n]

Word == [num |-> FALSE, val |-> 0]

Source(r, c, pr, pc, tiles) ==
    [hdr |-> <<Num(r), Num(c), Num(pr), Num(pc)>>, tiles |-> tiles]

\* The seven characters loadLevel accepts.
TileChars ==
    {TILE_TREASURE, TILE_PILLAR, TILE_OPEN, TILE_AMULET, TILE_MONSTER, TILE_DOOR, TILE_EXIT}

\* Characters of a source: the seven, the player's own and a foreign one.
SourceChars == TileChars \cup {TILE_PLAYER, "#"}

Strings(A, n) == [1 .. n -> A]

\* Every start position of shape sh = <<rows, cols>>.
Starts(sh) == (0 .. sh[1] - 1) \X (0 .. sh[2] - 1)

\* Well-formed sources of shape sh over the characters A with start st, the
\* start cell's own character being TILE_OPEN.
Levels(sh, A, st) ==
    {Source(sh[1], sh[2], st[1], st[2], t) :
        t \in {u \in Strings(A, sh[1] * sh[2]) : u[st[1] * sh[2] + st[2] + 1] = TILE_OPEN}}

\* -------------------------------------------------------------- the game

GameShapes == {<<1, 2>>, <<2, 1>>, <<1, 3>>, <<3, 1>>, <<2, 2>>, <<1, 4>>, <<4, 1>>}

LoadGame ==
    Fresh /\ \E sh \in GameShapes : \E st \in Starts(sh) : \E src \in Levels(sh, TileChars, st) :
        Load(src)

\* The driver of Spec resizes while the doubled grid has at most MaxCells cells.
ResizeSmall == Playing /\ (2 * maxRow) * (2 * maxCol) <= MaxCells /\ Resize

Next == LoadGame \/ Move \/ MonsterTurn \/ ResizeSmall

Spec == Init /\ [][Next]_vars

\* ------------------------------------------------------------- the loader

\* Sources of shape sh with a sound header, start st and n characters of A:
\* too few, too many, foreign ones.
TileSources(sh, A, st, n) ==
    {Source(sh[1], sh[2], st[1], st[2], t) : t \in Strings(A, n)}

\* Headers cut short or holding a non-numeric token, before n door characters.
HeaderSources(len, n) ==
    {[hdr |-> h, tiles |-> [k \in 1 .. n |-> TILE_DOOR]] :
        h \in Strings({Num(2), Word}, len)}

\* Sizes and starts around 0, 1 and 2, the source holding four doors.
EdgeSources(r, c) ==
    {Source(r, c, st[1], st[2], [k \in 1 .. 4 |-> TILE_DOOR]) :
        st \in (-1 .. 2) \X (-1 .. 2)}

\* A header of positive size r x c, start (0, pc), and n characters.
HugeSources(r, c, n) ==
    {Source(r, c, 0, pc, t) : pc \in 0 .. 1, t \in Strings({TILE_OPEN, "#"}, n)}

LoaderShapes == {<<1, 2>>, <<2, 1>>, <<1, 3>>}

LoadTiles ==
    Fresh /\ \E sh \in LoaderShapes : \E st \in Starts(sh) : \E n \in 0 .. sh[1] * sh[2] + 1 :
        \E src \in TileSources(sh, SourceChars, st, n) : Load(src)

LoadSquare ==
    Fresh /\ \E st \in Starts(<<2, 2>>) : \E n \in 0 .. 5 :
        \E src \in TileSources(<<2, 2>>, {TILE_OPEN, TILE_MONSTER, TILE_EXIT, "#"}, st, n) :
            Load(src)

LoadHeader ==
    Fresh /\ \E len \in 0 .. 4 : \E n \in 0 .. 4 : \E src \in HeaderSources(len, n) : Load(src)

LoadEdge ==
    Fresh /\ \E r \in -2 .. 2 : \E c \in -2 .. 2 : \E src \in EdgeSources(r, c) : Load(src)

LoadHuge ==
    Fresh /\ \E r \in 1 .. INT32_MAX : \E c \in 1 .. INT32_MAX : \E n \in 0 .. 1 :
        \E src \in HugeSources(r, c, n) : Load(src)

NextLoad == LoadTiles \/ LoadSquare \/ LoadHeader \/ LoadEdge \/ LoadHuge

SpecLoad == Init /\ [][NextLoad]_vars

\* ------------------------------------------------------------ resizing

\* The smallest dimension whose double does not fit the int type.
HalfRange == Pow2(IntBits - 2)

\* Levels of shape sh with start st, every other cell a door.
LongLevels(sh, st) ==
    {Source(sh[1], sh[2], st[1], st[2], [k \in 1 .. sh[1] * sh[2] |-> TILE_DOOR])}

ResizeShapes == {<<1, 2>>, <<2, 1>>, <<1, 3>>, <<3, 1>>, <<2, 2>>}

LongShapes == {<<HalfRange, 1>>, <<1, HalfRange>>, <<HalfRange, 2>>, <<HalfRange \div 2, 4>>}

LoadLevels ==
    Fresh /\ \E sh \in ResizeShapes : \E st \in Starts(sh) : \E src \in Levels(sh, TileChars, st) :
        Load(src)

LoadWide ==
    Fresh /\ \E st \in Starts(<<2, 3>>) :
        \E src \in Levels(<<2, 3>>, {TILE_OPEN, TILE_MONSTER, TILE_EXIT}, st) : Load(src)

LoadLong ==
    Fresh /\ \E sh \in LongShapes : \E st \in Starts(sh) : \E src \in LongLevels(sh, st) : Load(src)

NextResize == LoadLevels \/ LoadWide \/ LoadLong \/ Resize

SpecResize == Init /\ [][NextResize]_vars

\* --------------------------------------------- monster turns on their own

\* A square room: every ray of the player is in play at once.
RoomShape == <<3, 3>>

\* loadLevel wants a door or an exit; to a monster an exit is a cell like an open one.
RoomChars == {TILE_EXIT, TILE_MONSTER, TILE_PILLAR}

\* Corridors: one long ray, along a row or along a column.
CorridorShapes == {<<1, 4>>, <<4, 1>>}

CorridorChars == {TILE_OPEN, TILE_MONSTER, TILE_PILLAR, TILE_TREASURE, TILE_EXIT}

\* The rooms with start st: the start cell reads TILE_OPEN, every other cell
\* one of RoomChars.
RoomLevels(st) ==
    LET n == RoomShape[1] * RoomShape[2]
        k0 == st[1] * RoomShape[2] + st[2] + 1
    IN {Source(RoomShape[1], RoomShape[2], st[1], st[2],
               [k \in 1 .. n |-> IF k = k0 THEN TILE_OPEN ELSE u[k]]) :
            u \in [(1 .. n) \ {k0} -> RoomChars]}

LoadRoom ==
    Fresh /\ \E st \in Starts(RoomShape) : \E src \in RoomLevels(st) : Load(src)

LoadCorridor ==
    Fresh /\ \E sh \in CorridorShapes : \E st \in Starts(sh) :
        \E src \in Levels(sh, CorridorChars, st) : Load(src)

NextMonster == LoadRoom \/ LoadCorridor \/ MonsterTurn

SpecMonster == Init /\ [][NextMonster]_vars

\* ------------------------------------------------- createMap on its own

\* map = createMap(r, c), the driver's first call, for any two ints.
Allocate ==
    /\ Fresh
    /\ \E r \in INT32_MIN .. INT32_MAX, c \in INT32_MIN .. INT32_MAX :
         \E g \in {createMap(r, c)} :
            /\ op' = "createMap"
            /\ arg' = <<r, c>>
            /\ cells' = g
            /\ heap' = IF g # NoGrid THEN Append(heap, 0) ELSE heap
            /\ map' = IF g # NoGrid THEN NewHandle ELSE nullptr
            /\ ret' = IF g # NoGrid THEN NewHandle ELSE nullptr
            /\ UNCHANGED <<maxRow, maxCol, player, run, nullDeref, collected, captured>>

NextAlloc == Allocate

SpecAlloc == Init /\ [][NextAlloc]_vars

\* ================================================================== claims

\* The cells of the driver's grid.
Cells == (0 .. maxRow - 1) \X (0 .. maxCol - 1)

At(rc) == cells[rc[1]][rc[2]]

PlayerPos == <<player.row, player.col>>

\* The declared header of a source whose four header tokens are numbers.
SoundHeader(src) == Len(src.hdr) = 4 /\ \A i \in 1 .. 4 : src.hdr[i].num

DeclRows(src) == src.hdr[1].val

DeclCols(src) == src.hdr[2].val

DeclStart(src) == <<src.hdr[3].val, src.hdr[4].val>>

\* The position in src.tiles of the character of cell rc (row-major order).
CharIndex(src, rc) == rc[1] * DeclCols(src) + rc[2] + 1

Loaded == op = "load" /\ map # nullptr

\* ------------------------------------------------------------------- C1

(* C1 as stated: in every state in which the driver holds a grid, exactly  *)
(* one cell holds Player and it is the cell at (player.row, player.col),   *)
(* also right after a monsterTurn that returned true.                      *)
C1_AsStated ==
    Playing => /\ CountTile(cells, maxRow, maxCol, TILE_PLAYER) = 1
               /\ PlayerPos \in Cells
               /\ At(PlayerPos) = TILE_PLAYER

(* C1 amended: no cell but (player.row, player.col) ever holds Player;     *)
(* that cell holds Player, and so the grid exactly one Player, unless      *)
(* monsterTurn has returned true since the player was last placed there:   *)
(* then it holds Monster and the grid holds no Player at all.              *)
C1_PlayerCell ==
    Playing => /\ PlayerPos \in Cells
               /\ \A rc \in Cells \ {PlayerPos} : At(rc) # TILE_PLAYER
               /\ At(PlayerPos) = (IF captured THEN TILE_MONSTER ELSE TILE_PLAYER)

\* C1 witness: a monsterTurn has just returned true after some move.
C1_Witness ==
    /\ Playing
    /\ op = "monsterTurn"
    /\ ret = TRUE
    /\ collected
    /\ At(PlayerPos) = TILE_MONSTER
    /\ CountTile(cells, maxRow, maxCol, TILE_PLAYER) = 0

\* ------------------------------------------------------------------- C2

(* C2 as stated: after a load that failed, no block allocated during the   *)
(* load is still allocated; each has been deallocated exactly once.        *)
C2_NoLeakOnFailure ==
    (op = "load" /\ run = "running" /\ map = nullptr)
        => \A h \in DOMAIN heap : heap[h] = 1

\* ------------------------------------------------------------------- C3

(* C3: a grid returned by load has the declared rows and columns, holds    *)
(* Player at the declared start and nowhere else, holds in every other     *)
(* cell the tile of its source character in row-major order, and           *)
(* player.row and player.col are the declared start.                       *)
C3_LoadedGrid ==
    Loaded =>
        /\ SoundHeader(arg)
        /\ maxRow = DeclRows(arg) /\ maxCol = DeclCols(arg)
        /\ DOMAIN cells = 0 .. maxRow - 1
        /\ \A row \in DOMAIN cells : DOMAIN cells[row] = 0 .. maxCol - 1
        /\ PlayerPos = DeclStart(arg)
        /\ PlayerPos \in Cells
        /\ \A rc \in Cells :
             At(rc) = (IF rc = DeclStart(arg) THEN TILE_PLAYER
                       ELSE arg.tiles[CharIndex(arg, rc)])
        /\ \A rc \in Cells \ {PlayerPos} : At(rc) \in TileChars

\* C3 witness: a load returned a grid with amulet, monster and exit, the
\* start cell's own source character being none of the seven.
C3_Witness ==
    /\ Loaded
    /\ arg.tiles[CharIndex(arg, DeclStart(arg))] \notin TileChars
    /\ CountTile(cells, maxRow, maxCol, TILE_AMULET) = 1
    /\ CountTile(cells, maxRow, maxCol, TILE_EXIT) = 1

\* ------------------------------------------------------------------- C4

\* The positions 1 .. rows*cols of the declared grid's characters.
DeclChars(src) == 1 .. DeclRows(src) * DeclCols(src)

Missing(src, k) == k > Len(src.tiles)

Foreign(src, k) == k <= Len(src.tiles) /\ src.tiles[k] \notin TileChars

(* C4 as stated: load returns no grid whenever one of the rows*cols        *)
(* characters is missing or none of the seven, at every grid position.     *)
C4_AsStated ==
    (op = "load" /\ SoundHeader(arg)
        /\ \E k \in DeclChars(arg) : Missing(arg, k) \/ Foreign(arg, k))
        => map = nullptr

(* C4 amended: load returns no grid whenever one of the rows*cols          *)
(* characters is missing, or one at a position other than the declared     *)
(* start cell's is none of the seven.                                      *)
C4_TileRejected ==
    (op = "load" /\ SoundHeader(arg)
        /\ \E k \in DeclChars(arg) :
             \/ Missing(arg, k)
             \/ Foreign(arg, k) /\ k # CharIndex(arg, DeclStart(arg)))
        => map = nullptr

\* C4 witness: a load failed on a source that is sound but for one foreign
\* character away from the start cell (it even holds a door).
C4_Witness ==
    /\ op = "load" /\ map = nullptr /\ run = "running" /\ SoundHeader(arg)
    /\ DeclRows(arg) = 1 /\ DeclCols(arg) = 3 /\ DeclStart(arg) = <<0, 0>>
    /\ Len(arg.tiles) = 3
    /\ arg.tiles[2] = TILE_DOOR
    /\ arg.tiles[3] = TILE_PLAYER

\* ------------------------------------------------------------------- C5

\* The declared rows x cols does not fit the int type.
Overflows(src) ==
    \/ DeclRows(src) * DeclCols(src) > INT32_MAX
    \/ DeclRows(src) * DeclCols(src) < INT32_MIN

(* C5 as stated: on a header whose rows x cols overflows the int type,     *)
(* load returns its failure value and stores through no null map pointer.  *)
C5_OverflowFailsCleanly ==
    (op = "load" /\ SoundHeader(arg) /\ Overflows(arg))
        => run = "running" /\ map = nullptr /\ ~nullDeref

\* ------------------------------------------------------------------- C6

\* What resizeMap is to leave in cell (i, j) of the doubled grid.
Tiled(i, j) ==
    IF i < maxRow /\ j < maxCol THEN cells[i][j]
    ELSE IF cells[i % maxRow][j % maxCol] = TILE_PLAYER THEN TILE_OPEN
    ELSE cells[i % maxRow][j % maxCol]

(* C6: a resize that returns a grid, called on an r x c grid with exactly  *)
(* one Player, returns a 2r x 2c grid whose cell (i, j) is the original    *)
(* cell (i mod r, j mod c), but Open for the three copies of the Player    *)
(* cell outside the top-left quadrant; one Player remains, at the same     *)
(* (row, col), and maxRow and maxCol are doubled.                          *)
C6_ResizeTiles ==
    [][(op' = "resize" /\ ret' # nullptr
            /\ CountTile(cells, maxRow, maxCol, TILE_PLAYER) = 1)
        => /\ maxRow' = 2 * maxRow /\ maxCol' = 2 * maxCol
           /\ DOMAIN cells' = 0 .. 2 * maxRow - 1
           /\ \A i \in 0 .. 2 * maxRow - 1 :
                /\ DOMAIN cells'[i] = 0 .. 2 * maxCol - 1
                /\ \A j \in 0 .. 2 * maxCol - 1 : cells'[i][j] = Tiled(i, j)
           /\ CountTile(cells', maxRow', maxCol', TILE_PLAYER) = 1
           /\ player' = player
           /\ cells'[player.row][player.col] = TILE_PLAYER]_vars

\* C6 witness: a resize has returned a 4 x 4 grid with the player in its
\* second row and monsters in all four quadrants.
C6_Witness ==
    /\ op = "resize" /\ map # nullptr /\ run = "running"
    /\ maxRow = 4 /\ maxCol = 4
    /\ player.row = 1
    /\ CountTile(cells, maxRow, maxCol, TILE_MONSTER) = 8
    /\ CountTile(cells, maxRow, maxCol, TILE_PLAYER) = 1

\* ------------------------------------------------------------------- C7

\* The driver's grid is not empty and its doubled dimensions overflow the
\* int type: the double of one of them, or their product.
DoublingOverflows ==
    /\ map # nullptr /\ maxRow > 0 /\ maxCol > 0
    /\ \/ 2 * maxRow > INT32_MAX
       \/ 2 * maxCol > INT32_MAX
       \/ (2 * maxRow) * (2 * maxCol) > INT32_MAX

(* C7 as stated: a resize of a non-empty grid whose doubled dimensions     *)
(* overflow returns null, has deallocated the input grid exactly once and  *)
(* stores through no null pointer.                                         *)
C7_OverflowFailsCleanly ==
    [][(op' = "resize" /\ DoublingOverflows)
        => /\ run' = "running"
           /\ ret' = nullptr /\ map' = nullptr
           /\ heap'[map] = 1
           /\ ~nullDeref']_vars

\* ------------------------------------------------------------------- C8

\* The move just made had a target that is out of bounds, or holds Pillar or
\* Monster, or holds Exit while the player has no treasure.
TargetRefused(t) ==
    \/ t \notin Cells
    \/ At(t) \in {TILE_PILLAR, TILE_MONSTER}
    \/ At(t) = TILE_EXIT /\ player.treasure = 0

(* C8: a move whose target is out of bounds, or holds Pillar or Monster,   *)
(* or holds Exit while treasure is 0, returns Stayed and leaves every      *)
(* cell, player.row, player.col and treasure unchanged.                    *)
C8_RefusedMoveStays ==
    [][(op' = "move" /\ TargetRefused(arg'))
        => ret' = STATUS_STAY /\ cells' = cells /\ player' = player]_vars

\* C8 witness: a move onto a pillar has returned, the grid also holding an
\* exit the player cannot use yet.
C8_Witness ==
    /\ op = "move" /\ ret = STATUS_STAY
    /\ arg \in Cells /\ At(arg) = TILE_PILLAR
    /\ player.treasure = 0
    /\ CountTile(cells, maxRow, maxCol, TILE_EXIT) = 1

\* ------------------------------------------------------------------- C9

\* The status the first matching rule gives for a target holding tile.
RuleStatus(tile) ==
    CASE tile = TILE_EXIT -> STATUS_ESCAPE
      [] tile = TILE_DOOR -> STATUS_LEAVE
      [] tile = TILE_TREASURE -> STATUS_TREASURE
      [] tile = TILE_AMULET -> STATUS_AMULET
      [] tile = TILE_OPEN -> STATUS_MOVE

\* The target tile lets the player in.
Enterable(t) ==
    \/ At(t) \in {TILE_DOOR, TILE_TREASURE, TILE_AMULET, TILE_OPEN}
    \/ At(t) = TILE_EXIT /\ player.treasure > 0

(* C9: an in-bounds target that holds Exit (with treasure > 0), Door,      *)
(* Treasure, Amulet or Open gives Escaped, LeftRoom, CollectedTreasure,    *)
(* CollectedAmulet or Moved; afterwards the target holds Player, the old   *)
(* cell Open, player.row/col are the target, every other cell is           *)
(* unchanged and treasure has grown by 1 for Treasure and not at all       *)
(* otherwise. A target holding Player gives Stayed and changes nothing.    *)
C9_MoveRules ==
    [][(op' = "move" /\ arg' \in Cells)
        => /\ Enterable(arg')
             => /\ ret' = RuleStatus(At(arg'))
                /\ cells'[arg'[1]][arg'[2]] = TILE_PLAYER
                /\ cells'[player.row][player.col] = TILE_OPEN
                /\ player'.row = arg'[1] /\ player'.col = arg'[2]
                /\ \A rc \in Cells \ {arg', PlayerPos} :
                     cells'[rc[1]][rc[2]] = At(rc)
                /\ player'.treasure =
                     player.treasure + (IF At(arg') = TILE_TREASURE THEN 1 ELSE 0)
           /\ At(arg') = TILE_PLAYER
             => ret' = STATUS_STAY /\ cells' = cells /\ player' = player]_vars

\* C9 witness: a move onto an amulet has returned, made by a player who
\* holds treasure.
C9_Witness ==
    /\ op = "move" /\ ret = STATUS_AMULET
    /\ arg = PlayerPos /\ At(arg) = TILE_PLAYER
    /\ player.treasure = 1

\* ------------------------------------------------------------------ C10

(* C10: a move returns Escaped only after an earlier move has returned     *)
(* CollectedTreasure; until one has, every move onto an Exit tile returns  *)
(* Stayed and leaves the player where he is.                               *)
C10_ExitNeedsTreasure ==
    [][op' = "move"
        => /\ ret' = STATUS_ESCAPE => collected
           /\ (~collected /\ arg' \in Cells /\ At(arg') = TILE_EXIT)
                => ret' = STATUS_STAY /\ player' = player]_vars

\* C10 witness: a move has returned Escaped.
C10_Witness ==
    /\ op = "move" /\ ret = STATUS_ESCAPE
    /\ collected
    /\ At(PlayerPos) = TILE_PLAYER

\* ------------------------------------------------------------------ C11

\* The last call was a move that returned CollectedTreasure.
TookTreasure == op = "move" /\ ret = STATUS_TREASURE

(* C11: over move, resize and monsterTurn calls treasureCount is never     *)
(* negative and never decreases; a call adds exactly 1 to it if and only   *)
(* if it is a move that returns CollectedTreasure, and every other call    *)
(* leaves it as it was.                                                    *)
C11_TreasureCount ==
    [][op' \in {"move", "resize", "monsterTurn"}
        => /\ player.treasure >= 0 /\ player'.treasure >= 0
           /\ player'.treasure >= player.treasure
           /\ player'.treasure = player.treasure + 1 <=> TookTreasure'
           /\ ~TookTreasure' => player'.treasure = player.treasure]_vars

\* C11 witness: a second treasure has just been collected.
C11_Witness ==
    /\ TookTreasure
    /\ player.treasure = 2
    /\ At(PlayerPos) = TILE_PLAYER

\* ------------------------------------------------------------------ C12

\* The four directions of the player's rays: up, down, right, left.
Dirs == {<<-1, 0>>, <<1, 0>>, <<0, 1>>, <<0, -1>>}

\* The number of cells between the player and the grid's edge in direction d.
RayLength(d) ==
    IF d = <<-1, 0>> THEN player.row
    ELSE IF d = <<1, 0>> THEN (maxRow - 1) - player.row
    ELSE IF d = <<0, 1>> THEN (maxCol - 1) - player.col
    ELSE player.col

\* The cell i steps from the player in direction d.
RayCell(d, i) == <<player.row + d[1] * i, player.col + d[2] * i>>

\* Cell i of ray d is in the grid and no Pillar lies between it and the player.
InSight(d, i) ==
    /\ i \in 1 .. RayLength(d)
    /\ \A j \in 1 .. i - 1 : At(RayCell(d, j)) # TILE_PILLAR

\* A Monster stands i steps from the player on ray d, no Pillar in between.
SightedMonster(d, i) == InSight(d, i) /\ At(RayCell(d, i)) = TILE_MONSTER

\* The Monster nearest to the player on ray d stands i steps away, in sight.
NearestMonster(d, i) ==
    /\ SightedMonster(d, i)
    /\ \A j \in 1 .. i - 1 : At(RayCell(d, j)) # TILE_MONSTER

\* One of the four cells next to the player holds Monster.
MonsterAdjacent == \E d \in Dirs : RayLength(d) >= 1 /\ At(RayCell(d, 1)) = TILE_MONSTER

(* C12: monsterTurn returns true if and only if one of the four cells next *)
(* to the player held Monster when the call began; every ray is processed  *)
(* in every call: the nearest Monster in sight on each ray has stepped     *)
(* towards the player, whether or not another ray has captured him.        *)
C12_CaptureIffAdjacent ==
    [][op' = "monsterTurn"
        => /\ ret' = MonsterAdjacent
           /\ \A d \in Dirs : \A i \in 1 .. RayLength(d) :
                NearestMonster(d, i)
                    => cells'[RayCell(d, i - 1)[1]][RayCell(d, i - 1)[2]] = TILE_MONSTER]_vars

\* C12 witness: in a room, with the player in the top-left corner, the
\* monster below him has captured him and the monster two cells to his right
\* has stepped next to him in the same call.
C12_Witness ==
    /\ op = "monsterTurn" /\ ret = TRUE
    /\ maxRow = 3 /\ maxCol = 3 /\ PlayerPos = <<0, 0>>
    /\ cells[0][0] = TILE_MONSTER
    /\ cells[1][0] = TILE_OPEN
    /\ cells[0][1] = TILE_MONSTER /\ cells[0][2] = TILE_OPEN

\* ------------------------------------------------------------------ C13

\* The nearest Pillar of ray d stands p steps from the player.
NearestPillar(d, p) == InSight(d, p) /\ At(RayCell(d, p)) = TILE_PILLAR

(* C13: in a monsterTurn call every cell on or beyond the nearest Pillar   *)
(* of a ray keeps its tile: a Monster with a Pillar between itself and the *)
(* player is not moved, and no Monster is moved onto or past that Pillar.  *)
C13_PillarShields ==
    [][op' = "monsterTurn"
        => \A d \in Dirs : \A p \in 1 .. RayLength(d) :
             NearestPillar(d, p)
                => \A j \in p .. RayLength(d) :
                     cells'[RayCell(d, j)[1]][RayCell(d, j)[2]] = At(RayCell(d, j))]_vars

\* C13 witness: in a room, with the player in the top-left corner, a call
\* has let the monster below him capture him while the monster to his right,
\* behind a pillar, has kept its cell.
C13_Witness ==
    /\ op = "monsterTurn" /\ ret = TRUE
    /\ maxRow = 3 /\ maxCol = 3 /\ PlayerPos = <<0, 0>>
    /\ cells[1][0] = TILE_OPEN
    /\ cells[0][1] = TILE_PILLAR /\ cells[0][2] = TILE_MONSTER

\* ------------------------------------------------------------------ C14

\* createMap(r, c) must fail: a dimension is not positive, or the product
\* of the two is beyond the int range.
MustFail(r, c) == r <= 0 \/ c <= 0 \/ r * c > INT32_MAX

\* g is an r x c grid whose cells are all Open.
AllOpen(g, r, c) ==
    /\ DOMAIN g = 0 .. r - 1
    /\ \A i \in 0 .. r - 1 :
         /\ DOMAIN g[i] = 0 .. c - 1
         /\ \A j \in 0 .. c - 1 : g[i][j] = TILE_OPEN

(* C14: createMap(r, c) returns null if r <= 0 or c <= 0 or r * c exceeds  *)
(* the int range; for every other (r, c) it returns an r x c grid in which *)
(* every cell is Open.                                                     *)
C14_AllocateContract ==
    op = "createMap"
        => IF MustFail(arg[1], arg[2])
           THEN ret = nullptr /\ map = nullptr /\ cells = NoGrid
           ELSE ret # nullptr /\ map = ret /\ AllOpen(cells, arg[1], arg[2])

\* C14 witness: a grid of exactly INT32_MAX cells has been allocated.
C14_Witness ==
    /\ op = "createMap" /\ ret # nullptr
    /\ arg[1] > 1 /\ arg[1] * arg[2] = INT32_MAX
    /\ cells[arg[1] - 1][arg[2] - 1] = TILE_OPEN

\* ------------------------------------------------------------------ C15

\* The tile of cell i of ray d after the call.
RayTileAfter(d, i) == cells'[RayCell(d, i)[1]][RayCell(d, i)[2]]

(* C15 as stated: on each ray only the Monster nearest to the player       *)
(* advances one step; the scan of the ray ends there, so every cell        *)
(* further out, a Monster's cell among them, holds after the call what it  *)
(* held before.                                                            *)
C15_AsStated ==
    [][op' = "monsterTurn"
        => \A d \in Dirs : \A n \in 1 .. RayLength(d) :
             NearestMonster(d, n)
                => /\ RayTileAfter(d, n - 1) = TILE_MONSTER
                   /\ \A j \in n + 1 .. RayLength(d) :
                        RayTileAfter(d, j) = At(RayCell(d, j))]_vars

(* C15, amended: on each ray every Monster in sight of the player, the     *)
(* nearest and those further out alike, advances one step in the same      *)
(* call: the cell one step nearer to the player holds Monster afterwards,  *)
(* and the Monster's own cell holds Monster only if the Monster behind it  *)
(* has stepped into it, Open otherwise.                                    *)
C15_EveryMonsterInSightAdvances ==
    [][op' = "monsterTurn"
        => \A d \in Dirs : \A i \in 1 .. RayLength(d) :
             SightedMonster(d, i)
                => /\ RayTileAfter(d, i - 1) = TILE_MONSTER
                   /\ RayTileAfter(d, i) =
                        IF SightedMonster(d, i + 1) THEN TILE_MONSTER ELSE TILE_OPEN]_vars

\* C15 witness: in a corridor, with the player at its left end, the two
\* monsters at the far end have both stepped towards him in one call.
C15_Witness ==
    /\ op = "monsterTurn" /\ ret = FALSE
    /\ maxRow = 1 /\ maxCol = 4 /\ PlayerPos = <<0, 0>>
    /\ cells[0][0] = TILE_PLAYER
    /\ cells[0][1] = TILE_MONSTER /\ cells[0][2] = TILE_MONSTER
    /\ cells[0][3] = TILE_OPEN

\* ------------------------------------------------------------------ C16

\* A Monster in sight of the player steps into cell rc in the call.
SteppedInto(rc) ==
    \E d \in Dirs : \E i \in 1 .. RayLength(d) :
        SightedMonster(d, i) /\ rc = RayCell(d, i - 1)

\* A Monster in sight of the player steps out of cell rc in the call.
SteppedOutOf(rc) ==
    \E d \in Dirs : \E i \in 1 .. RayLength(d) :
        SightedMonster(d, i) /\ rc = RayCell(d, i)

\* The tile of cell rc once every Monster in sight has advanced one cell.
AfterAdvance(rc) ==
    IF SteppedInto(rc) THEN TILE_MONSTER
    ELSE IF SteppedOutOf(rc) THEN TILE_OPEN
    ELSE At(rc)

(* C16: in one monsterTurn call every Monster on one of the player's four  *)
(* rays with no Pillar between it and the player advances exactly one cell *)
(* towards the player: the cell it steps into holds Monster, the cell it   *)
(* leaves is Open unless the Monster behind it steps into it. The scan of  *)
(* a ray ends only at a Pillar or at the grid's edge, and every other cell *)
(* of the grid, each Monster out of sight among them, keeps its tile.      *)
C16_AllInSightAdvance ==
    [][op' = "monsterTurn"
        => /\ \A rc \in Cells : cells'[rc[1]][rc[2]] = AfterAdvance(rc)
           /\ DOMAIN cells' = DOMAIN cells
           /\ player' = player /\ maxRow' = maxRow /\ maxCol' = maxCol]_vars

\* C16 witness: in a room, with the player in the middle, the four monsters
\* next to him have all stepped onto his cell in one call, and the monster
\* in the top-left corner, on none of his rays, has stayed.
C16_Witness ==
    /\ op = "monsterTurn" /\ ret = TRUE
    /\ maxRow = 3 /\ maxCol = 3 /\ PlayerPos = <<1, 1>>
    /\ cells[1][1] = TILE_MONSTER
    /\ cells[0][1] = TILE_OPEN /\ cells[2][1] = TILE_OPEN
    /\ cells[1][0] = TILE_OPEN /\ cells[1][2] = TILE_OPEN
    /\ cells[0][0] = TILE_MONSTER

\* ------------------------------------------------------------------ C17

\* Cell rc lies neither in the player's row nor in his column.
OffRays(rc) == rc[1] # player.row /\ rc[2] # player.col

\* The call has changed no cell outside the player's row and column.
OffRaysKept == \A rc \in Cells : OffRays(rc) => cells'[rc[1]][rc[2]] = At(rc)

(* C17 as stated: monsterTurn changes no cell outside the player's row and *)
(* column and never writes the player's own cell, which holds the same     *)
(* tile after the call as before, whatever the call returns.               *)
C17_AsStated ==
    [][op' = "monsterTurn"
        => /\ OffRaysKept
           /\ cells'[player.row][player.col] = At(PlayerPos)]_vars

(* C17, amended: monsterTurn changes no cell outside the player's row and  *)
(* column; the player's own cell holds Monster after a call that returns   *)
(* true and the tile it held before after a call that returns false.       *)
C17_OnlyRaysWritten ==
    [][op' = "monsterTurn"
        => /\ OffRaysKept
           /\ cells'[player.row][player.col] =
                IF ret' THEN TILE_MONSTER ELSE At(PlayerPos)]_vars

\* C17 witness: in a room, with the player in the bottom-right corner, the
\* monster to his left has stepped onto his cell; the monster and the exit
\* off his rays are where they were.
C17_Witness ==
    /\ op = "monsterTurn" /\ ret = TRUE
    /\ maxRow = 3 /\ maxCol = 3 /\ PlayerPos = <<2, 2>>
    /\ cells[2][2] = TILE_MONSTER /\ cells[2][1] = TILE_OPEN
    /\ cells[1][2] = TILE_PILLAR
    /\ cells[1][1] = TILE_MONSTER /\ cells[0][0] = TILE_EXIT

\* ------------------------------------------------------------------ C18

(* C18: over move and monsterTurn calls, which leave the grid's size as it *)
(* is, a cell that holds Pillar keeps holding Pillar and no other cell     *)
(* comes to hold Pillar: neither the player nor a monster enters or        *)
(* overwrites a Pillar cell.                                               *)
C18_PillarsPermanent ==
    [][op' \in {"move", "monsterTurn"}
        => /\ maxRow' = maxRow /\ maxCol' = maxCol
           /\ \A rc \in Cells :
                (cells'[rc[1]][rc[2]] = TILE_PILLAR) <=> (At(rc) = TILE_PILLAR)]_vars

\* C18 witness: in a corridor the player has stepped onto the cell at the
\* right end and back, and a monsterTurn call has then left the pillar
\* standing between him and the monster behind it.
C18_Witness ==
    /\ op = "monsterTurn" /\ ret = FALSE
    /\ maxRow = 1 /\ maxCol = 4 /\ PlayerPos = <<0, 2>>
    /\ cells[0][0] = TILE_MONSTER /\ cells[0][1] = TILE_PILLAR
    /\ cells[0][2] = TILE_PLAYER /\ cells[0][3] = TILE_OPEN

\* ------------------------------------------------------------------ C19

\* The number of Monster tiles in the driver's grid.
Monsters == CountTile(cells, maxRow, maxCol, TILE_MONSTER)

\* The number of cells next to the player that hold Monster.
AdjacentMonsters ==
    Cardinality({d \in Dirs : RayLength(d) >= 1 /\ At(RayCell(d, 1)) = TILE_MONSTER})

(* C19 as stated: over move and monsterTurn calls the number of Monster    *)
(* tiles in the grid never changes.                                        *)
C19_AsStated ==
    [][op' \in {"move", "monsterTurn"} => Monsters' = Monsters]_vars

(* C19, amended: over move and monsterTurn calls the number of Monster     *)
(* tiles never grows. A monsterTurn moves the k monsters next to the       *)
(* player onto his one cell, which leaves k - 1 fewer Monster tiles, or k  *)
(* fewer if that cell held Monster already, and moves every other monster  *)
(* onto a cell of its own; a move that relocates the player away from a    *)
(* cell that holds Monster clears that cell, one Monster fewer; every      *)
(* other call leaves the number as it is.                                  *)
C19_MonsterCount ==
    [][op' \in {"move", "monsterTurn"}
        => /\ Monsters' <= Monsters
           /\ op' = "monsterTurn"
                => Monsters' = Monsters - AdjacentMonsters
                     + (IF AdjacentMonsters >= 1 /\ At(PlayerPos) # TILE_MONSTER
                        THEN 1 ELSE 0)
           /\ op' = "move"
                => Monsters' = Monsters
                     - (IF player' # player /\ At(PlayerPos) = TILE_MONSTER
                        THEN 1 ELSE 0)]_vars

\* C19 witness: in a 2 x 2 grid, with the player in the top-left corner and
\* the exit in the opposite one, a monster has stepped onto the player's
\* cell and is the only one in the grid.
C19_Witness ==
    /\ op = "monsterTurn" /\ ret = TRUE
    /\ maxRow = 2 /\ maxCol = 2 /\ PlayerPos = <<0, 0>>
    /\ cells[0][0] = TILE_MONSTER
    /\ cells[0][1] = TILE_OPEN /\ cells[1][0] = TILE_OPEN
    /\ cells[1][1] = TILE_EXIT
    /\ Monsters = 1

\* ------------------------------------------------------------------ C20

\* One of n consecutive monsterTurn calls on grid g, the player staying
\* where he is, returns true.
RECURSIVE CapturedWithin(_, _)
CapturedWithin(g, n) ==
    IF n = 0 THEN FALSE
    ELSE LET res == doMonsterAttack(g, maxRow, maxCol, player)
         IN res.ret \/ CapturedWithin(res.g, n - 1)

(* C20: if a Monster stands d >= 1 cells from the player on one of his     *)
(* rays with no Pillar between them and the player stays where he is, one  *)
(* of the next d consecutive monsterTurn calls returns true, whatever      *)
(* tiles other than Pillar lie between the two.                            *)
C20_CapturedWithinDistance ==
    Playing
        => \A d \in Dirs : \A i \in 1 .. RayLength(d) :
             SightedMonster(d, i) => CapturedWithin(cells, i)

\* C20 witness: in a corridor, with the player at its left end, a call has
\* brought the monster from the far end to two cells from him, and a
\* treasure still lies between the two.
C20_Witness ==
    /\ op = "monsterTurn" /\ ret = FALSE
    /\ maxRow = 1 /\ maxCol = 4 /\ PlayerPos = <<0, 0>>
    /\ cells[0][0] = TILE_PLAYER /\ cells[0][1] = TILE_TREASURE
    /\ cells[0][2] = TILE_MONSTER /\ cells[0][3] = TILE_OPEN
    /\ SightedMonster(<<0, 1>>, 2)

====
